---------------------------- MODULE Spec2Model ----------------------------
(***************************************************************************)
(* Model of the ironic-shop trading window (scripts/apps/ShopApplication.js *)
(* and scripts/api/ShopAPI.js): one ShopApplication instance between a      *)
(* shop actor and a player actor, its two offer baskets, and the            *)
(* asynchronous executeTrade commit against the actor/item store; and       *)
(* ShopAPI's registry of open windows with its quickBuy / quickSell calls.  *)
(*                                                                          *)
(* Currency amounts are integers.  Values in gold pieces are JavaScript     *)
(* numbers, IEEE 754 doubles: 0.1 and 0.01 are not exact and every sum and  *)
(* product is rounded to 53 significant bits, as in the code.  The values   *)
(* the model computes with are below 2^11 gold pieces.                      *)
(*                                                                          *)
(* An awaited store call is one step: the store applies the write, the      *)
(* promise resolves and the continuation of the async function runs up to   *)
(* the next await (where it issues the next store call).  A store call may  *)
(* also reject, which runs the catch block.                                 *)
(***************************************************************************)
EXTENDS Integers, Sequences, FiniteSets, TLC

(* ------------------------------ bounds -------------------------------- *)
\* number of user events (basket changes and confirms) in one behaviour
MaxEvents == 3
\* number of item documents that can ever exist (initial ones + created):
\* enough for every create the events and calls of one behaviour can issue
MaxDocs == 6
\* largest amount of a denomination in the bundles the currency functions
\* are evaluated on
MaxAmount == 2
\* number of ShopApplication instances ShopAPI.openShop can create
MaxShops == 3
\* number of quickBuy / quickSell invocations in one behaviour
MaxCalls == 2

(* ----------------------------- constants ------------------------------ *)
Denoms == {"pp", "gp", "ep", "sp", "cp"}
Sides == {"player", "shop"}
Other(side) == IF side = "player" THEN "shop" ELSE "player"
Commits == 1..MaxEvents
DocIds == 1..MaxDocs
\* "no document" (undefined / null in the code)
NoDoc == 0

Zero == [d \in Denoms |-> 0]
Bundle(pp, gp, ep, sp, cp) ==
    [d \in Denoms |-> CASE d = "pp" -> pp [] d = "gp" -> gp [] d = "ep" -> ep
                        [] d = "sp" -> sp [] d = "cp" -> cp]

\* The item data the model distinguishes: name, type, flags.core.sourceId
\* ("" when the item declares none), system.price.value and
\* system.price.denomination.  The tonic is a renamed copy of the compendium
\* potion, the brew a hand-made item that is also called Potion.
Kinds ==
    [potion |-> [name |-> "Potion", type |-> "consumable", sourceId |-> "Compendium.potion",
                 price |-> 1, denom |-> "gp"],
     brew   |-> [name |-> "Potion", type |-> "consumable", sourceId |-> "",
                 price |-> 1, denom |-> "gp"],
     tonic  |-> [name |-> "Tonic", type |-> "consumable", sourceId |-> "Compendium.potion",
                 price |-> 1, denom |-> "gp"],
     sword  |-> [name |-> "Sword", type |-> "weapon", sourceId |-> "",
                 price |-> 1, denom |-> "pp"],
     gem    |-> [name |-> "Gem", type |-> "loot", sourceId |-> "",
                 price |-> 3, denom |-> "gp"]]

\* The inventories when the window opens.
InitDocs ==
    [i \in DocIds |->
        CASE i = 1 -> [kind |-> "potion", owner |-> "shop", quantity |-> 2, alive |-> TRUE]
          [] i = 2 -> [kind |-> "brew", owner |-> "player", quantity |-> 1, alive |-> TRUE]
          [] i = 3 -> [kind |-> "tonic", owner |-> "player", quantity |-> 1, alive |-> TRUE]
          [] i = 4 -> [kind |-> "sword", owner |-> "player", quantity |-> 1, alive |-> TRUE]
          [] OTHER -> [kind |-> "none", owner |-> "none", quantity |-> 0, alive |-> FALSE]]

\* ShopAPI: the instances openShop creates, and "no instance" (null)
ShopIds == 1..MaxShops
NoShop == 0
\* the ids of the actors openShop is called with; "" is an actor that could
\* not be resolved (undefined / null in the code)
ShopActorIds == {"npc"}
PlayerActorIds == {"pc1", "pc2"}
NoActor == ""
\* the quickBuy / quickSell / setupShop invocations
Calls == 1..MaxCalls
\* how quickBuy / quickSell are given the item: as an id (a string) or as
\* the Item object itself
ItemForms == {"id", "object"}
\* sellRatio in hundredths (0.5 is 50)
SellRatios == {50, 100}
DefaultSellRatio == 50
\* the quantities quickBuy / quickSell are called with
QuickQuantities == {1, 2}
\* the inventories and the gold the quick trades start from
QuickDocs ==
    [i \in DocIds |->
        CASE i = 1 -> [kind |-> "gem", owner |-> "shop", quantity |-> 2, alive |-> TRUE]
          [] i = 2 -> [kind |-> "potion", owner |-> "shop", quantity |-> 1, alive |-> TRUE]
          [] i = 3 -> [kind |-> "gem", owner |-> "player", quantity |-> 1, alive |-> TRUE]
          [] OTHER -> [kind |-> "none", owner |-> "none", quantity |-> 0, alive |-> FALSE]]
QuickGold == [player |-> {2, 4}, shop |-> {0, 2}]
\* the gold (1000 is the default) and the item data setupShop is called with
SetupGold == {1, 1000}
SetupItems == {<<>>, <<[kind |-> "potion", quantity |-> 2]>>}
\* an invocation that was not made; playerDelta and shopDelta record by how
\* much the invocation's updates changed the gold of the two actors
IdleCall ==
    [pc |-> "idle", op |-> "none", given |-> "id", item |-> NoDoc, quantity |-> 0, ratio |-> 0,
     price |-> 0, playerGold |-> 0, shopGold |-> 0, itemQty |-> 0, outcome |-> "none",
     result |-> FALSE, playerDelta |-> 0, shopDelta |-> 0,
     actor |-> "none", gold |-> 0, items |-> <<>>]

\* an instance that was not created yet
NoWindow == [key |-> "", state |-> "none", closeQueued |-> FALSE]
\* new Map()
EmptyMap == [k \in {} |-> NoShop]

\* The currency the two actors may hold when the window opens.
HeldChoices == {Bundle(1, 0, 0, 0, 0), Bundle(0, 1, 0, 1, 0)}
PlayerHeldChoices == {Bundle(1, 0, 0, 0, 0)}
ShopHeldChoices == {Bundle(0, 1, 0, 1, 0)}

VARIABLES
    actorCurrency,      \* actor.system.currency of both actors
    docs,               \* the item documents of both actors
    tradeItems,         \* playerTradeItems / shopTradeItems (insertion order)
    tradeCurrency,      \* playerTradeCurrency / shopTradeCurrency
    allowNegativeGold,  \* the allowNegativeGold setting
    context,            \* what the last render computed
    trades,             \* the executeTrade invocations
    hist,               \* per invocation: what it read and what it issued
    prompts,            \* the quantity dialogs that are open; stale records
                        \* that the baskets were reset since the dialog opened
    events,             \* number of user events so far
    shops,              \* the ShopApplication instances ShopAPI.openShop created
    activeShops,        \* ShopAPI.#activeShops: shop key -> instance
    quick               \* the quickBuy / quickSell invocations

\* the state of ShopAPI, which no handler of a window touches
apiVars == <<shops, activeShops, quick>>

vars == <<actorCurrency, docs, tradeItems, tradeCurrency, allowNegativeGold,
          context, trades, hist, prompts, events, shops, activeShops, quick>>

(* ------------------------- JavaScript numbers -------------------------- *)

\* A non-negative real below 2^(3 * LimbBits - Fraction) with at most
\* Fraction binary digits after the point is kept as the integer number of
\* its units of 2^(-Fraction), in three limbs of LimbBits bits: <<h, m, l>>
\* is h * Limb^2 + m * Limb + l.
Fraction == 60
LimbBits == 24
Limb == 2^LimbBits
\* the significant bits of an IEEE 754 double
Precision == 53

\* the magnitudes, and the numbers
Magnitudes == Nat \X Nat \X Nat
Doubles == [neg : BOOLEAN, mag : Magnitudes]
NoBits == <<0, 0, 0>>

\* the limbs after the carries from l to m and from m to h
carried(h, m, l) ==
    LET middle == m + l \div Limb
    IN  <<h + middle \div Limb, middle % Limb, l % Limb>>

bitLess(a, b) ==
    \/ a[1] < b[1]
    \/ a[1] = b[1] /\ a[2] < b[2]
    \/ a[1] = b[1] /\ a[2] = b[2] /\ a[3] < b[3]

\* a + b
bitAdd[a \in Magnitudes, b \in Magnitudes] == carried(a[1] + b[1], a[2] + b[2], a[3] + b[3])

\* a - b for b <= a, with the borrows from m and from h
bitSub[a \in Magnitudes, b \in Magnitudes] ==
    LET low == a[3] - b[3]
        lowBorrow == IF low < 0 THEN 1 ELSE 0
        middle == a[2] - b[2] - lowBorrow
        middleBorrow == IF middle < 0 THEN 1 ELSE 0
    IN  <<a[1] - b[1] - middleBorrow, middle + middleBorrow * Limb, low + lowBorrow * Limb>>

\* n * a for a natural number n < 2^7, exactly
bitTimes[n \in Nat, a \in Magnitudes] == carried(n * a[1], n * a[2], n * a[3])

\* the position of the leading bit of a positive integer, and of a magnitude
leadingBit(x) == CHOOSE k \in 0..30 : x \div (2^k) = 1
bitMax(a) ==
    IF a[1] > 0 THEN 2 * LimbBits + leadingBit(a[1])
    ELSE IF a[2] > 0 THEN LimbBits + leadingBit(a[2])
    ELSE leadingBit(a[3])

\* the rounding of every arithmetic operation: to the nearest number with
\* Precision significant bits, a tie to the one whose last bit is 0.  The
\* bits that are rounded away lie in the lowest limb: a magnitude whose
\* lowest limb is 0 has at most 2 * LimbBits significant bits.
roundToDouble[a \in Magnitudes] ==
    IF a[3] = 0 \/ bitMax(a) < Precision THEN a
    ELSE LET step == 2^(bitMax(a) - (Precision - 1))
             rest == a[3] % step
             odd == (a[3] \div step) % 2 = 1
             roundUp == 2 * rest > step \/ (2 * rest = step /\ odd)
         IN  carried(a[1], a[2], a[3] - rest + (IF roundUp THEN step ELSE 0))

\* the value of a sequence of hexadecimal digits, most significant first
RECURSIVE hexValue(_)
hexValue(digits) ==
    IF digits = <<>> THEN 0
    ELSE 16 * hexValue(SubSeq(digits, 1, Len(digits) - 1)) + digits[Len(digits)]

\* a number: its sign and its magnitude (there is one zero)
Double(neg, mag) == [neg |-> neg /\ mag # NoBits, mag |-> mag]
magnitude(n) == IF n < 0 THEN 0 - n ELSE n
fromInt[n \in Int] == Double(n < 0, <<magnitude(n) * 2^(Fraction - 2 * LimbBits), 0, 0>>)
\* the literals 10, 0.5, 0.1 = 0x1.999999999999Ap-4 and
\* 0.01 = 0x1.47AE147AE147Bp-7
Ten == fromInt[10]
Half == Double(FALSE, <<2^(Fraction - 1 - 2 * LimbBits), 0, 0>>)
Tenth ==
    Double(FALSE, bitTimes[2^(Fraction - 4 - (Precision - 1)),
                           <<hexValue(<<1, 9>>), hexValue(<<9, 9, 9, 9, 9, 9>>),
                             hexValue(<<9, 9, 9, 9, 9, 10>>)>>])
Hundredth ==
    Double(FALSE, bitTimes[2^(Fraction - 7 - (Precision - 1)),
                           <<hexValue(<<1, 4>>), hexValue(<<7, 10, 14, 1, 4, 7>>),
                             hexValue(<<10, 14, 1, 4, 7, 11>>)>>])

\* x + y, x - y, and n * x for an integer n (x + 0 is x, 0 + y is y, 0 * x
\* and n * 0 are 0, 1 * x is x)
dblNeg(x) == Double(~x.neg, x.mag)
dblAdd[x \in Doubles, y \in Doubles] ==
    IF y.mag = NoBits THEN x
    ELSE IF x.mag = NoBits THEN y
    ELSE IF x.neg = y.neg THEN Double(x.neg, roundToDouble[bitAdd[x.mag, y.mag]])
    ELSE IF bitLess(x.mag, y.mag) THEN Double(y.neg, roundToDouble[bitSub[y.mag, x.mag]])
    ELSE Double(x.neg, roundToDouble[bitSub[x.mag, y.mag]])
dblSub[x \in Doubles, y \in Doubles] == dblAdd[x, dblNeg(y)]
dblTimes[n \in Int, x \in Doubles] ==
    IF n = 0 \/ x.mag = NoBits THEN Double(FALSE, NoBits)
    ELSE IF n = 1 THEN x
    ELSE Double((n < 0) # x.neg, roundToDouble[bitTimes[magnitude(n), x.mag]])
\* x > 0, x < 0, x < y
dblPositive(x) == ~x.neg /\ x.mag # NoBits
dblNegative(x) == x.neg
dblLess(x, y) == dblNegative(dblSub[x, y])

(* --------------------------- pure functions --------------------------- *)

\* #prepareCurrency
prepareCurrency(actor) == actorCurrency[actor]

\* currency.pp ?? 0: the amount of a denomination, 0 when the bundle lacks it
amountOrZero(currency, type) == IF type \in DOMAIN currency THEN currency[type] ELSE 0

\* #calculateTotalGold: the sum is evaluated from left to right
calculateTotalGold(currency) ==
    dblAdd[dblAdd[dblAdd[dblAdd[dblTimes[amountOrZero(currency, "pp"), Ten],
                                fromInt[amountOrZero(currency, "gp")]],
                         dblTimes[amountOrZero(currency, "ep"), Half]],
                  dblTimes[amountOrZero(currency, "sp"), Tenth]],
           dblTimes[amountOrZero(currency, "cp"), Hundredth]]

\* foundry.utils.getProperty(item, pricePath) ?? 0 of a document
itemPrice(item) == IF docs[item].kind \in DOMAIN Kinds THEN Kinds[docs[item].kind].price ELSE 0

\* String.prototype.toLowerCase on the denomination texts the model uses
UpperCased == [PP |-> "pp", GP |-> "gp", EP |-> "ep", SP |-> "sp", CP |-> "cp", Gp |-> "gp"]
toLowerCase(text) == IF text \in DOMAIN UpperCased THEN UpperCased[text] ELSE text

toGold_UnknownIsZero(amount, denom) ==
    LET unit == toLowerCase(IF denom = "" THEN "gp" ELSE denom)
    IN  CASE unit = "pp" -> dblTimes[amount, Ten]
          [] unit = "gp" -> fromInt[amount]
          [] unit = "ep" -> dblTimes[amount, Half]
          [] unit = "sp" -> dblTimes[amount, Tenth]
          [] unit = "cp" -> dblTimes[amount, Hundredth]
          [] OTHER -> fromInt[0]

\* #toGold, lines 170-179; a missing denomination ("", falsy) and an unknown
\* one count as gp
toGold(amount, denom) ==
    LET unit == toLowerCase(IF denom = "" THEN "gp" ELSE denom)
    IN  CASE unit = "pp" -> dblTimes[amount, Ten]
          [] unit = "gp" -> fromInt[amount]
          [] unit = "ep" -> dblTimes[amount, Half]
          [] unit = "sp" -> dblTimes[amount, Tenth]
          [] unit = "cp" -> dblTimes[amount, Hundredth]
          [] OTHER -> fromInt[amount]

\* getProperty(item, 'system.price.denomination') ?? 'gp' of a document
itemDenomination(item) ==
    IF docs[item].kind \in DOMAIN Kinds THEN Kinds[docs[item].kind].denom ELSE "gp"

\* #prepareInventory, lines 194-201: the price the inventory list shows and
\* sorts by
priceInGp(item) == toGold(itemPrice(item), itemDenomination(item))

\* #calculateTradeBalance, lines 261-264 and 268-271: the loop that adds
\* price * quantity of every entry, in the map's order, to the offer's value
RECURSIVE offerItemsValue(_, _)
offerItemsValue(value, entries) ==
    IF entries = <<>> THEN value
    ELSE offerItemsValue(
            dblAdd[value, fromInt[itemPrice(Head(entries).item) * Head(entries).quantity]],
            Tail(entries))

\* #calculateTradeBalance (positive = player advantage)
calculateTradeBalance ==
    LET playerOfferValue == offerItemsValue(calculateTotalGold(tradeCurrency["player"]),
                                            tradeItems["player"])
        shopOfferValue == offerItemsValue(calculateTotalGold(tradeCurrency["shop"]),
                                          tradeItems["shop"])
    IN  dblSub[shopOfferValue, playerOfferValue]

\* #canConfirmTrade, lines 282-283: hasPlayerOffer / hasShopOffer
hasOffer(side) ==
    Len(tradeItems[side]) > 0 \/ dblPositive(calculateTotalGold(tradeCurrency[side]))

currencyAffordable_ByTotal(playerCurrency, shopCurrency) ==
    /\ ~dblLess(calculateTotalGold(playerCurrency), calculateTotalGold(tradeCurrency["player"]))
    /\ ~dblLess(calculateTotalGold(shopCurrency), calculateTotalGold(tradeCurrency["shop"]))

\* #canConfirmTrade, lines 290-293: no side offers more of a denomination
\* than it holds
currencyAffordable(playerCurrency, shopCurrency) ==
    \A type \in Denoms :
        /\ ~(tradeCurrency["player"][type] > playerCurrency[type])
        /\ ~(tradeCurrency["shop"][type] > shopCurrency[type])

canConfirmTrade_NoEmptyCheck(playerCurrency, shopCurrency) ==
    /\ allowNegativeGold \/ currencyAffordable(playerCurrency, shopCurrency)
    /\ ~dblPositive(calculateTradeBalance)

canConfirmTrade_SignFlipped(playerCurrency, shopCurrency) ==
    IF ~hasOffer("player") /\ ~hasOffer("shop") THEN FALSE
    ELSE IF ~allowNegativeGold /\ ~currencyAffordable(playerCurrency, shopCurrency) THEN FALSE
    ELSE IF dblNegative(calculateTradeBalance) THEN FALSE
    ELSE TRUE

canConfirmTrade_NoShopFavour(playerCurrency, shopCurrency) ==
    IF ~hasOffer("player") /\ ~hasOffer("shop") THEN FALSE
    ELSE IF ~allowNegativeGold /\ ~currencyAffordable(playerCurrency, shopCurrency) THEN FALSE
    ELSE IF calculateTradeBalance # fromInt[0] THEN FALSE
    ELSE TRUE

\* #canConfirmTrade
canConfirmTrade(playerCurrency, shopCurrency) ==
    IF ~hasOffer("player") /\ ~hasOffer("shop") THEN FALSE
    ELSE IF ~allowNegativeGold /\ ~currencyAffordable(playerCurrency, shopCurrency) THEN FALSE
    ELSE IF dblPositive(calculateTradeBalance) THEN FALSE
    ELSE TRUE

\* _prepareContext, lines 104-105 and 139: the canConfirm flag of the render
prepareContext ==
    [canConfirm |-> canConfirmTrade(prepareCurrency("player"), prepareCurrency("shop"))]


(* ------------------------------ the store ----------------------------- *)

aliveItems(D, actor) == {i \in DocIds : D[i].alive /\ D[i].owner = actor}
freeIds(D) == {i \in DocIds : D[i].kind = "none"}
MinOf(S) == CHOOSE x \in S : \A y \in S : x <= y

NoPend == [op |-> "none", item |-> NoDoc, owner |-> "none", kind |-> "none", quantity |-> 0]

\* toActor.items.find(...): the first match in the collection's order
\* (documents are kept in the order of their creation), or NoDoc
firstOf(found) == IF found = {} THEN NoDoc ELSE MinOf(found)

existingItem_NameFirst(D, item, toActor) ==
    LET sourceId == Kinds[D[item].kind].sourceId
        byName ==
            firstOf({i \in aliveItems(D, toActor) :
                        /\ Kinds[D[i].kind].name = Kinds[D[item].kind].name
                        /\ Kinds[D[i].kind].type = Kinds[D[item].kind].type})
    IN  IF byName # NoDoc THEN byName
        ELSE IF sourceId # ""
        THEN firstOf({i \in aliveItems(D, toActor) : Kinds[D[i].kind].sourceId = sourceId})
        ELSE NoDoc

\* #transferItem, lines 712-726: the stacking target in toActor, or NoDoc
existingItem(D, item, toActor) ==
    LET sourceId == Kinds[D[item].kind].sourceId
        bySource ==
            IF sourceId # ""
            THEN firstOf({i \in aliveItems(D, toActor) : Kinds[D[i].kind].sourceId = sourceId})
            ELSE NoDoc
    IN  IF bySource # NoDoc THEN bySource
        ELSE firstOf({i \in aliveItems(D, toActor) :
                        /\ Kinds[D[i].kind].name = Kinds[D[item].kind].name
                        /\ Kinds[D[i].kind].type = Kinds[D[item].kind].type})

\* #transferItem, lines 728-739: the store call on the destination
destinationOp(D, item, toActor, quantity) ==
    LET existing == existingItem(D, item, toActor)
    IN  IF existing # NoDoc
        THEN [op |-> "update", item |-> existing, owner |-> toActor,
              kind |-> D[existing].kind, quantity |-> D[existing].quantity + quantity]
        ELSE [op |-> "create", item |-> NoDoc, owner |-> toActor,
              kind |-> D[item].kind, quantity |-> quantity]

\* #transferItem, lines 741-747: the store call on the source item
sourceOp(D, item, quantity) ==
    LET currentQty == D[item].quantity
    IN  IF currentQty <= quantity
        THEN [op |-> "delete", item |-> item, owner |-> D[item].owner,
              kind |-> D[item].kind, quantity |-> 0]
        ELSE [op |-> "update", item |-> item, owner |-> D[item].owner,
              kind |-> D[item].kind, quantity |-> currentQty - quantity]

\* The store can carry out the call: an update or delete needs the document to
\* exist still; a create is always carried out.
storeAccepts(D, p) ==
    CASE p.op = "update" -> D[p.item].alive
      [] p.op = "delete" -> D[p.item].alive
      [] OTHER -> TRUE

\* the store has an unused document id for the call (MaxDocs is not reached)
withinDocs(D, p) == p.op = "create" => freeIds(D) # {}

\* The documents after the store carried out the call.
storeApply(D, p) ==
    CASE p.op = "update" -> [D EXCEPT ![p.item].quantity = p.quantity]
      [] p.op = "delete" -> [D EXCEPT ![p.item].alive = FALSE]
      [] p.op = "create" ->
            [D EXCEPT ![MinOf(freeIds(D))] =
                [kind |-> p.kind, owner |-> p.owner, quantity |-> p.quantity, alive |-> TRUE]]
      [] OTHER -> D


(* ------------------------------- state -------------------------------- *)

IdleTrade ==
    [pc |-> "idle", newPlayerCurrency |-> Zero, newShopCurrency |-> Zero,
     itemsToPlayer |-> <<>>, itemsToShop |-> <<>>, idx |-> 0, pend |-> NoPend,
     notified |-> "none"]

\* What is recorded of an invocation: the currency it read and the offers at
\* its start, whether canConfirm held then, the store calls it issued, how
\* many of them settled, and whether one rejected.
NoHist == [held |-> [s \in Sides |-> Zero], offered |-> [s \in Sides |-> Zero],
           confirmable |-> TRUE, issued |-> <<>>, resolved |-> 0, rejected |-> FALSE]

\* the record of an invocation that returned: what it read is no longer kept
EndHist(h) == [NoHist EXCEPT !.issued = h.issued, !.resolved = h.resolved + 1]

\* constructor and first render
Init ==
    /\ actorCurrency \in {h \in [Sides -> HeldChoices] :
                            h["player"] \in PlayerHeldChoices /\ h["shop"] \in ShopHeldChoices}
    /\ docs = InitDocs
    /\ tradeItems = [s \in Sides |-> <<>>]
    /\ tradeCurrency = [s \in Sides |-> Zero]
    /\ allowNegativeGold \in BOOLEAN
    /\ context = prepareContext
    /\ trades = [c \in Commits |-> IdleTrade]
    /\ hist = [c \in Commits |-> NoHist]
    /\ prompts = <<>>
    /\ events = 0
    /\ shops = [i \in ShopIds |-> NoWindow]
    /\ activeShops = EmptyMap
    /\ quick = [c \in Calls |-> IdleCall]

InFlight(c) == trades[c].pc \in {"updPlayer", "updShop", "xferDst", "xferSrc"}

(* --------------------------- basket handlers --------------------------- *)

\* The text of an input field, as a sequence of characters.
DigitChars == <<"0", "1", "2", "3", "4", "5", "6", "7", "8", "9">>
digitValue(ch) == (CHOOSE k \in 1..10 : DigitChars[k] = ch) - 1
isDigit(ch) == \E k \in 1..10 : DigitChars[k] = ch
RawInputs ==
    {<<"0">>, <<"1">>, <<>>, <<"a">>, <<"-", "1">>, <<"1", ".", "5">>, <<" ", "1">>,
     <<"1", "e", "1">>}

\* The text typed into the quantity dialog's number field.
QuantityInputs == RawInputs \cup {<<"2">>, <<"9">>}

RECURSIVE skipSpace(_)
skipSpace(text) ==
    IF text # <<>> /\ Head(text) = " " THEN skipSpace(Tail(text)) ELSE text

\* the value of the leading digits of text, after acc
RECURSIVE leadingDigits(_, _)
leadingDigits(text, acc) ==
    IF text # <<>> /\ isDigit(Head(text))
    THEN leadingDigits(Tail(text), acc * 10 + digitValue(Head(text)))
    ELSE acc

\* parseInt(text): leading white space, an optional sign, then decimal digits up
\* to the first other character; NaN (nan |-> TRUE) when there is no digit
parseInt(raw) ==
    LET text == skipSpace(raw)
        negative == text # <<>> /\ Head(text) = "-"
        signed == text # <<>> /\ Head(text) \in {"-", "+"}
        digits == IF signed THEN Tail(text) ELSE text
    IN  IF digits = <<>> \/ ~isDigit(Head(digits)) THEN [nan |-> TRUE, value |-> 0]
        ELSE IF negative THEN [nan |-> FALSE, value |-> 0 - leadingDigits(digits, 0)]
        ELSE [nan |-> FALSE, value |-> leadingDigits(digits, 0)]

clampInput_NoClamp(raw) ==
    LET parsed == parseInt(raw)
    IN  IF parsed.nan THEN 0 ELSE parsed.value

\* Math.max(0, parseInt(value) || 0): NaN and 0 are falsy
clampInput(raw) ==
    LET parsed == parseInt(raw)
        orZero == IF parsed.nan THEN 0 ELSE parsed.value
    IN  IF orZero > 0 THEN orZero ELSE 0

setCurrency_IgnoresMalformed(currency, side, type, raw) ==
    IF parseInt(raw).nan THEN currency
    ELSE [currency EXCEPT ![side][type] = clampInput(raw)]

\* _onRender, lines 355 and 364: the assignment of the change handler to
\* this.playerTradeCurrency[type] / this.shopTradeCurrency[type]
setCurrency(currency, side, type, raw) ==
    [currency EXCEPT ![side][type] = clampInput(raw)]

\* _onRender, lines 351-367: a currency input changed
SetCurrency(side, type, raw) ==
    /\ events < MaxEvents
    /\ events' = events + 1
    /\ tradeCurrency' = setCurrency(tradeCurrency, side, type, raw)
    /\ UNCHANGED <<actorCurrency, docs, tradeItems, allowNegativeGold, trades, hist, prompts>>
    /\ context' = prepareContext'


\* tradeMap.has(itemId)
inTrade(entries, item) == \E k \in 1..Len(entries) : entries[k].item = item

\* tradeMap.delete(itemId)
mapDelete(entries, item) == SelectSeq(entries, LAMBDA e : e.item # item)

\* tradeMap.set(itemId, {item, quantity}): a new key goes last, a key that is
\* present keeps its place and gets the new value
mapSet(entries, item, quantity) ==
    IF inTrade(entries, item)
    THEN [k \in 1..Len(entries) |->
            IF entries[k].item = item THEN [item |-> item, quantity |-> quantity]
            ELSE entries[k]]
    ELSE Append(entries, [item |-> item, quantity |-> quantity])

\* actor.items.get(itemId) finds the item
hasItem(actor, item) == docs[item].alive /\ docs[item].owner = actor

toggleItem_KeepsPresent(entries, item, quantity) ==
    IF inTrade(entries, item) THEN entries
    ELSE IF quantity <= 0 THEN entries
    ELSE mapSet(entries, item, quantity)

\* #onInventoryItemClick, lines 446-461, as a function of the quantity the
\* click resolves to (1, the prompt's result, or 0 for a cancelled prompt):
\* an item in the trade is removed, another one is added with that quantity
toggleItem(entries, item, quantity) ==
    IF inTrade(entries, item) THEN mapDelete(entries, item)
    ELSE IF quantity <= 0 THEN entries
    ELSE mapSet(entries, item, quantity)

\* #onInventoryItemClick, lines 432-461, up to the await of the prompt
InventoryItemClick(source, item) ==
    /\ events < MaxEvents
    /\ hasItem(source, item)
    /\ events' = events + 1
    /\ UNCHANGED <<actorCurrency, docs, tradeCurrency, allowNegativeGold, trades, hist>>
    /\ IF inTrade(tradeItems[source], item) \/ docs[item].quantity <= 1
       THEN /\ tradeItems' = [tradeItems EXCEPT ![source] = toggleItem(@, item, 1)]
            /\ prompts' = prompts
            /\ context' = prepareContext'
       ELSE /\ prompts' = Append(prompts, [source |-> source, item |-> item,
                                           maxQuantity |-> docs[item].quantity,
                                           stale |-> FALSE])
            /\ UNCHANGED <<tradeItems, context>>

removeAt(seq, k) == [j \in 1..(Len(seq) - 1) |-> IF j < k THEN seq[j] ELSE seq[j + 1]]

\* #promptQuantity, lines 487-490: the quantity the Confirm button resolves to
promptResult(raw, maxQuantity) ==
    LET parsed == parseInt(raw)
        qty == IF parsed.nan \/ parsed.value = 0 THEN 1 ELSE parsed.value
        atLeastOne == IF qty > 1 THEN qty ELSE 1
    IN  IF atLeastOne < maxQuantity THEN atLeastOne ELSE maxQuantity

\* #onInventoryItemClick, lines 448-457: the quantities a click on item can
\* resolve to; 0 stands for a cancelled prompt (null)
toggleQuantities(item) ==
    IF docs[item].quantity > 1
    THEN {promptResult(raw, docs[item].quantity) : raw \in QuantityInputs} \cup {0}
    ELSE {1}

resolvePrompt_CancelAddsOne(entries, item, quantity) ==
    IF quantity <= 0 THEN mapSet(entries, item, 1)
    ELSE mapSet(entries, item, quantity)

\* #onInventoryItemClick, lines 456-460, after the await: the trade map once
\* the prompt resolved to quantity; 0 stands for null (Cancel, or the dialog
\* closed)
resolvePrompt(entries, item, quantity) ==
    IF quantity <= 0 THEN entries
    ELSE mapSet(entries, item, quantity)

\* the dialog's Confirm button, then #onInventoryItemClick, lines 456-461
PromptConfirm(k, raw) ==
    LET p == prompts[k]
        quantity == promptResult(raw, p.maxQuantity)
    IN  /\ k \in 1..Len(prompts)
        /\ prompts' = removeAt(prompts, k)
        /\ UNCHANGED <<actorCurrency, docs, tradeCurrency, allowNegativeGold, trades,
                       hist, events>>
        /\ tradeItems' = [tradeItems EXCEPT ![p.source] = resolvePrompt(@, p.item, quantity)]
        /\ IF quantity <= 0 THEN UNCHANGED context ELSE context' = prepareContext'

\* the dialog's Cancel button or its close: resolve(null), line 457 returns
\* before the render
PromptCancel(k) ==
    /\ k \in 1..Len(prompts)
    /\ prompts' = removeAt(prompts, k)
    /\ tradeItems' = [tradeItems EXCEPT ![prompts[k].source] =
                            resolvePrompt(@, prompts[k].item, 0)]
    /\ UNCHANGED <<actorCurrency, docs, tradeCurrency, allowNegativeGold,
                   context, trades, hist, events>>

\* #onDrop, lines 558-582: an inventory item dropped on its own side's list
Drop(source, item) ==
    /\ events < MaxEvents
    /\ hasItem(source, item)
    /\ ~inTrade(tradeItems[source], item)
    /\ events' = events + 1
    /\ tradeItems' = [tradeItems EXCEPT ![source] = mapSet(@, item, 1)]
    /\ UNCHANGED <<actorCurrency, docs, tradeCurrency, allowNegativeGold, trades, hist,
                   prompts>>
    /\ context' = prepareContext'

\* #onRemovePlayerItem / #onRemoveShopItem, lines 601-614: the map's delete
\* (which does nothing for an id that is not in the trade) and the render
RemoveItem(side, item) ==
    /\ events < MaxEvents
    /\ events' = events + 1
    /\ tradeItems' = [tradeItems EXCEPT ![side] = mapDelete(@, item)]
    /\ UNCHANGED <<actorCurrency, docs, tradeCurrency, allowNegativeGold, trades, hist,
                   prompts>>
    /\ context' = prepareContext'

\* search / sort handlers and any other re-render: this.render()
Render ==
    /\ context' = prepareContext
    /\ context' # context
    /\ UNCHANGED <<actorCurrency, docs, tradeItems, tradeCurrency, allowNegativeGold,
                   trades, hist, prompts, events>>

(* ------------------------------ executeTrade --------------------------- *)

newCurrency_OwnOffer(side) ==
    [type \in Denoms |->
        prepareCurrency(side)[type] - tradeCurrency[side][type]
            + tradeCurrency[side][type]]

\* executeTrade, lines 622-632: the new currency of one party
newCurrency(side) ==
    [type \in Denoms |->
        prepareCurrency(side)[type] - tradeCurrency[side][type]
            + tradeCurrency[Other(side)][type]]

transferPlan_ShopLast(t) ==
    [k \in 1..Len(t.itemsToShop) |->
        [item |-> t.itemsToShop[k].item, quantity |-> t.itemsToShop[k].quantity,
         from |-> "player", to |-> "shop"]]
    \o [k \in 1..Len(t.itemsToPlayer) |->
        [item |-> t.itemsToPlayer[k].item, quantity |-> t.itemsToPlayer[k].quantity,
         from |-> "shop", to |-> "player"]]

\* executeTrade, lines 663-671: the transfers in the order of the two loops
transferPlan(t) ==
    [k \in 1..Len(t.itemsToPlayer) |->
        [item |-> t.itemsToPlayer[k].item, quantity |-> t.itemsToPlayer[k].quantity,
         from |-> "shop", to |-> "player"]]
    \o [k \in 1..Len(t.itemsToShop) |->
        [item |-> t.itemsToShop[k].item, quantity |-> t.itemsToShop[k].quantity,
         from |-> "player", to |-> "shop"]]

\* the tag under which a store call is recorded in hist
CurrencyCall(actor) == [call |-> "currency", actor |-> actor]
ItemCall(x) == [call |-> "item", actor |-> x.to]

\* #onConfirm -> executeTrade up to its first await (lines 620-648)
StartTrade(c) ==
    /\ events < MaxEvents
    /\ events' = events + 1
    /\ trades[c].pc = "idle"
    /\ \A b \in Commits : b < c => trades[b].pc # "idle"
    /\ trades' = [trades EXCEPT ![c] =
            [pc |-> "updPlayer",
             newPlayerCurrency |-> newCurrency("player"),
             newShopCurrency |-> newCurrency("shop"),
             itemsToPlayer |-> tradeItems["shop"],
             itemsToShop |-> tradeItems["player"],
             idx |-> 0, pend |-> NoPend, notified |-> "none"]]
    /\ hist' = [hist EXCEPT ![c] =
            [held |-> actorCurrency, offered |-> tradeCurrency,
             confirmable |-> canConfirmTrade(prepareCurrency("player"),
                                             prepareCurrency("shop")),
             issued |-> <<CurrencyCall("player")>>, resolved |-> 0, rejected |-> FALSE]]
    /\ UNCHANGED <<actorCurrency, docs, tradeItems, tradeCurrency, allowNegativeGold,
                   context, prompts>>


resetItems == [s \in Sides |-> <<>>]

\* the open dialogs after the baskets were reset: they stay open
afterReset(open) == [k \in 1..Len(open) |-> [open[k] EXCEPT !.stale = TRUE]]

resetCurrency_PlayerOnly == [tradeCurrency EXCEPT !["player"] = Zero]
\* executeTrade, lines 677-680 (and clearTrade, lines 695-698)
resetCurrency == [s \in Sides |-> Zero]

\* executeTrade after the currency updates: the next transfer of the two loops
\* (lines 663-671), or the end of the try block (lines 673-683).  t is the
\* invocation with idx at the transfer to start; docs' is already determined.
AfterStep(c, t) ==
    IF t.idx > Len(transferPlan(t))
    THEN /\ trades' = [trades EXCEPT ![c] =
                [IdleTrade EXCEPT !.pc = "done", !.notified = "info"]]
         /\ hist' = [hist EXCEPT ![c] = EndHist(@)]
         /\ tradeItems' = resetItems
         /\ tradeCurrency' = resetCurrency
         /\ prompts' = afterReset(prompts)
         /\ context' = prepareContext'
    ELSE LET x == transferPlan(t)[t.idx]
         IN  /\ trades' = [trades EXCEPT ![c] =
                    [t EXCEPT !.pc = "xferDst",
                              !.pend = destinationOp(docs', x.item, x.to, x.quantity)]]
             /\ hist' = [hist EXCEPT ![c].resolved = @ + 1,
                                     ![c].issued = Append(@, ItemCall(x))]
             /\ UNCHANGED <<tradeItems, tradeCurrency, prompts, context>>

\* await this.playerActor.update(...) resolves (lines 648-654); the shop's
\* update is issued (line 655)
ResolvePlayerCurrency(c) ==
    /\ trades[c].pc = "updPlayer"
    /\ actorCurrency' = [actorCurrency EXCEPT !["player"] = trades[c].newPlayerCurrency]
    /\ trades' = [trades EXCEPT ![c].pc = "updShop"]
    /\ hist' = [hist EXCEPT ![c].resolved = @ + 1,
                            ![c].issued = Append(@, CurrencyCall("shop"))]
    /\ UNCHANGED <<docs, tradeItems, tradeCurrency, allowNegativeGold, context,
                   prompts, events>>

\* await this.shopActor.update(...) resolves (lines 655-661)
ResolveShopCurrency(c) ==
    /\ trades[c].pc = "updShop"
    /\ actorCurrency' = [actorCurrency EXCEPT !["shop"] = trades[c].newShopCurrency]
    /\ UNCHANGED <<docs, allowNegativeGold, events>>
    /\ AfterStep(c, [trades[c] EXCEPT !.idx = 1])

\* #transferItem: the await of the destination's update / create resolves
\* (lines 731, 738); the source's delete / update is issued (lines 742-747)
ResolveDestination(c) ==
    LET t == trades[c]
        x == transferPlan(t)[t.idx]
    IN  /\ t.pc = "xferDst"
        /\ storeAccepts(docs, t.pend)
        /\ withinDocs(docs, t.pend)
        /\ docs' = storeApply(docs, t.pend)
        /\ trades' = [trades EXCEPT ![c] =
                [t EXCEPT !.pc = "xferSrc", !.pend = sourceOp(docs', x.item, x.quantity)]]
        /\ hist' = [hist EXCEPT ![c].resolved = @ + 1,
                                ![c].issued = Append(@, ItemCall(x))]
        /\ UNCHANGED <<actorCurrency, tradeItems, tradeCurrency, allowNegativeGold,
                       context, prompts, events>>

\* #transferItem: the await of the source's delete / update resolves
\* (lines 744, 746) and #transferItem returns
ResolveSource(c) ==
    LET t == trades[c]
    IN  /\ t.pc = "xferSrc"
        /\ storeAccepts(docs, t.pend)
        /\ docs' = storeApply(docs, t.pend)
        /\ UNCHANGED <<actorCurrency, allowNegativeGold, events>>
        /\ AfterStep(c, [t EXCEPT !.idx = t.idx + 1])

Reject_Continues(c) ==
    /\ trades[c].pc = "updPlayer"
    /\ trades' = [trades EXCEPT ![c].pc = "updShop", ![c].notified = "error"]
    /\ hist' = [hist EXCEPT ![c].resolved = @ + 1, ![c].rejected = TRUE,
                            ![c].issued = Append(@, CurrencyCall("shop"))]
    /\ UNCHANGED <<actorCurrency, docs, tradeItems, tradeCurrency, allowNegativeGold,
                   context, prompts, events>>

Reject_Resets(c) ==
    /\ InFlight(c)
    /\ trades' = [trades EXCEPT ![c] =
            [IdleTrade EXCEPT !.pc = "failed", !.notified = "error"]]
    /\ hist' = [hist EXCEPT ![c] = [EndHist(@) EXCEPT !.rejected = TRUE]]
    /\ tradeItems' = resetItems
    /\ tradeCurrency' = resetCurrency
    /\ UNCHANGED <<actorCurrency, docs, allowNegativeGold, prompts, events>>
    /\ context' = prepareContext'

Reject_Silent(c) ==
    /\ InFlight(c)
    /\ trades' = [trades EXCEPT ![c] = [IdleTrade EXCEPT !.pc = "failed"]]
    /\ hist' = [hist EXCEPT ![c] = [EndHist(@) EXCEPT !.rejected = TRUE]]
    /\ UNCHANGED <<actorCurrency, docs, tradeItems, tradeCurrency, allowNegativeGold,
                   context, prompts, events>>

\* an awaited store call rejects: the catch block (lines 685-688)
Reject(c) ==
    /\ InFlight(c)
    /\ trades' = [trades EXCEPT ![c] =
            [IdleTrade EXCEPT !.pc = "failed", !.notified = "error"]]
    /\ hist' = [hist EXCEPT ![c] = [EndHist(@) EXCEPT !.rejected = TRUE]]
    /\ UNCHANGED <<actorCurrency, docs, tradeItems, tradeCurrency, allowNegativeGold,
                   context, prompts, events>>

ClearTrade_Commits ==
    /\ events < MaxEvents
    /\ events' = events + 1
    /\ actorCurrency' = [s \in Sides |-> newCurrency(s)]
    /\ tradeItems' = resetItems
    /\ tradeCurrency' = resetCurrency
    /\ prompts' = afterReset(prompts)
    /\ UNCHANGED <<docs, allowNegativeGold, trades, hist>>
    /\ context' = prepareContext'

\* clearTrade, lines 694-700
ClearTrade ==
    /\ events < MaxEvents
    /\ events' = events + 1
    /\ tradeItems' = resetItems
    /\ tradeCurrency' = resetCurrency
    /\ prompts' = afterReset(prompts)
    /\ UNCHANGED <<actorCurrency, docs, allowNegativeGold, trades, hist>>
    /\ context' = prepareContext'

(* --------------------------- the specification ------------------------- *)

Next ==
    \/ \E side \in Sides, type \in Denoms, raw \in RawInputs : SetCurrency(side, type, raw) /\ UNCHANGED apiVars
    \/ \E source \in Sides, item \in DocIds : InventoryItemClick(source, item) /\ UNCHANGED apiVars
    \/ \E k \in 1..MaxEvents, raw \in QuantityInputs : PromptConfirm(k, raw) /\ UNCHANGED apiVars
    \/ \E k \in 1..MaxEvents : PromptCancel(k) /\ UNCHANGED apiVars
    \/ \E source \in Sides, item \in DocIds : Drop(source, item) /\ UNCHANGED apiVars
    \/ \E side \in Sides, item \in DocIds : RemoveItem(side, item) /\ UNCHANGED apiVars
    \/ ClearTrade /\ UNCHANGED apiVars
    \/ Render /\ UNCHANGED apiVars
    \/ \E c \in Commits : StartTrade(c) /\ UNCHANGED apiVars
    \/ \E c \in Commits : ResolvePlayerCurrency(c) /\ UNCHANGED apiVars
    \/ \E c \in Commits : ResolveShopCurrency(c) /\ UNCHANGED apiVars
    \/ \E c \in Commits : ResolveDestination(c) /\ UNCHANGED apiVars
    \/ \E c \in Commits : ResolveSource(c) /\ UNCHANGED apiVars
    \/ \E c \in Commits : Reject(c) /\ UNCHANGED apiVars

Spec == Init /\ [][Next]_vars

\* the awaited store call of invocation c settles: it resolves or it rejects
StoreSettles(c) ==
    \/ ResolvePlayerCurrency(c) /\ UNCHANGED apiVars
    \/ ResolveShopCurrency(c) /\ UNCHANGED apiVars
    \/ ResolveDestination(c) /\ UNCHANGED apiVars
    \/ ResolveSource(c) /\ UNCHANGED apiVars
    \/ Reject(c) /\ UNCHANGED apiVars

\* The steps of the window with the currency inputs limited to the two gp
\* fields: what a commit does next does not depend on which denominations
\* are offered.
CommitNext ==
    \/ \E side \in Sides, raw \in RawInputs : SetCurrency(side, "gp", raw) /\ UNCHANGED apiVars
    \/ \E source \in Sides, item \in DocIds : InventoryItemClick(source, item) /\ UNCHANGED apiVars
    \/ \E k \in 1..MaxEvents, raw \in QuantityInputs : PromptConfirm(k, raw) /\ UNCHANGED apiVars
    \/ \E k \in 1..MaxEvents : PromptCancel(k) /\ UNCHANGED apiVars
    \/ \E source \in Sides, item \in DocIds : Drop(source, item) /\ UNCHANGED apiVars
    \/ \E side \in Sides, item \in DocIds : RemoveItem(side, item) /\ UNCHANGED apiVars
    \/ ClearTrade /\ UNCHANGED apiVars
    \/ Render /\ UNCHANGED apiVars
    \/ \E c \in Commits : StartTrade(c) /\ UNCHANGED apiVars
    \/ \E c \in Commits : StoreSettles(c)

\* every store call eventually resolves or rejects
FairSpec ==
    Init /\ [][CommitNext]_vars /\ \A c \in Commits : WF_vars(StoreSettles(c))

\* no confirm was clicked yet: the offer is still being composed
Composing == \A c \in Commits : trades[c].pc = "idle"

\* One negotiation: the offer is composed, then Confirm is clicked any number
\* of times with no basket handler running in between.
RetryNext ==
    \/ \E side \in Sides, type \in Denoms, raw \in RawInputs :
            Composing /\ SetCurrency(side, type, raw) /\ UNCHANGED apiVars
    \/ \E source \in Sides, item \in DocIds : Composing /\ Drop(source, item) /\ UNCHANGED apiVars
    \/ \E c \in Commits : StartTrade(c) /\ UNCHANGED apiVars
    \/ \E c \in Commits : StoreSettles(c)

RetrySpec ==
    Init /\ [][RetryNext]_vars /\ \A c \in Commits : WF_vars(StoreSettles(c))


(* ------------------------------- ShopAPI ------------------------------- *)

\* the variables of the trading window, which ShopAPI's registry never touches
windowVars == <<actorCurrency, docs, tradeItems, tradeCurrency, allowNegativeGold,
                context, trades, hist, prompts, events>>

\* `${shopActor.id}-${playerActor.id}` (line 51)
shopKey(shopActor, playerActor) == shopActor \o "-" \o playerActor

\* Map.prototype.has / set / delete on #activeShops
registryHas(registry, key) == key \in DOMAIN registry
registrySet(registry, key, shop) ==
    [k \in DOMAIN registry \cup {key} |-> IF k = key THEN shop ELSE registry[k]]
registryDelete(registry, key) == [k \in DOMAIN registry \ {key} |-> registry[k]]

\* existing.element (line 57): an application has its element from the end of
\* its first render until its close completes
hasElement(w) == w.state \in {"rendered", "closing"}

\* lines 54-59: the instance openShop returns without creating one, NoShop
\* when it goes on to create an instance
existingShop(key) ==
    IF registryHas(activeShops, key) /\ hasElement(shops[activeShops[key]])
    THEN activeShops[key]
    ELSE NoShop

\* the instance ids no instance was created with yet
unusedShops == {i \in ShopIds : shops[i].state = "none"}

\* ShopAPI.openShop up to its await (lines 22-77)
OpenShop(shopActor, playerActor) ==
    /\ IF shopActor = NoActor \/ playerActor = NoActor
       THEN UNCHANGED <<shops, activeShops>>
       ELSE LET shopKeyOf == shopKey(shopActor, playerActor)
            IN  IF existingShop(shopKeyOf) # NoShop
                THEN UNCHANGED <<shops, activeShops>>
                ELSE /\ unusedShops # {}
                     /\ LET shop == MinOf(unusedShops)
                        IN  /\ shops' = [shops EXCEPT ![shop] =
                                    [key |-> shopKeyOf, state |-> "rendering",
                                     closeQueued |-> FALSE]]
                            /\ activeShops' = registrySet(activeShops, shopKeyOf, shop)
    /\ UNCHANGED <<windowVars, quick>>

\* await shop.render(true) resolves (line 77): the window has its element; a
\* close() requested meanwhile runs next
RenderDone(shop) ==
    /\ shops[shop].state = "rendering"
    /\ shops' = [shops EXCEPT ![shop].state = IF shops[shop].closeQueued
                                               THEN "closing" ELSE "rendered",
                              ![shop].closeQueued = FALSE]
    /\ UNCHANGED <<activeShops, windowVars, quick>>

\* the user closes a rendered window: shop.close() starts
CloseWindow(shop) ==
    /\ shops[shop].state = "rendered"
    /\ shops' = [shops EXCEPT ![shop].state = "closing"]
    /\ UNCHANGED <<activeShops, windowVars, quick>>

\* a close completes: the 'close' listener of lines 73-75 runs
Closed(shop) ==
    /\ shops[shop].state = "closing"
    /\ shops' = [shops EXCEPT ![shop].state = "closed"]
    /\ activeShops' = registryDelete(activeShops, shops[shop].key)
    /\ UNCHANGED <<windowVars, quick>>

\* shop.close() called on an instance by closeAll (line 114)
closeRequested(w) ==
    CASE w.state = "rendered" -> [w EXCEPT !.state = "closing"]
      [] w.state = "rendering" -> [w EXCEPT !.closeQueued = TRUE]
      [] OTHER -> w

\* ShopAPI.closeAll (lines 112-117)
CloseAll ==
    /\ shops' = [i \in ShopIds |->
            IF \E k \in DOMAIN activeShops : activeShops[k] = i
            THEN closeRequested(shops[i]) ELSE shops[i]]
    /\ activeShops' = EmptyMap
    /\ UNCHANGED <<windowVars, quick>>

\* foundry.utils.getProperty(actor, currencyPath) ?? 0 with the default
\* currency path system.currency.gp
goldOf(actor) == amountOrZero(actorCurrency[actor], "gp")

\* the party that hands over the item, and the one that pays for it
sellerOf(op) == IF op = "buy" THEN "shop" ELSE "player"
payerOf(op) == IF op = "buy" THEN "player" ELSE "shop"

\* quickBuy line 179 / quickSell lines 234-235: the price of the trade
quickPrice(op, item, quantity, ratio) ==
    IF op = "buy" THEN itemPrice(item) * quantity
    ELSE ((itemPrice(item) * ratio) \div 100) * quantity

\* lines 170-174 / 225-229: an id is looked up in the seller's items and may
\* not be found; an Item object is taken as it is
quickFound(op, given, item) ==
    IF given = "id" THEN hasItem(sellerOf(op), item) ELSE TRUE

\* the checks of quickBuy (lines 174-192) and quickSell (lines 229-248), in
\* their order: what the call does
quickOutcome(op, given, item, quantity, ratio) ==
    CASE ~quickFound(op, given, item) -> "notFound"
      [] goldOf(payerOf(op)) < quickPrice(op, item, quantity, ratio) -> "noGold"
      [] docs[item].quantity < quantity -> "noStock"
      [] OTHER -> "ok"

\* quickBuy / quickSell up to the first await, or to the return false of a
\* failed check; an Item object is one of a document that exists or existed
QuickStart(c, op, given, item, quantity, ratio) ==
    /\ quick[c].pc = "idle"
    /\ \A b \in Calls : b < c => quick[b].pc # "idle"
    /\ given = "object" => docs[item].kind # "none"
    /\ LET outcome == quickOutcome(op, given, item, quantity, ratio)
       IN  quick' = [quick EXCEPT ![c] =
                [IdleCall EXCEPT
                 !.pc = IF outcome = "ok" THEN "updPlayer" ELSE "returned",
                 !.op = op, !.given = given, !.item = item, !.quantity = quantity,
                 !.ratio = ratio,
                 !.price = IF outcome = "notFound" THEN 0
                           ELSE quickPrice(op, item, quantity, ratio),
                 !.playerGold = IF outcome = "notFound" THEN 0 ELSE goldOf("player"),
                 !.shopGold = IF outcome = "notFound" THEN 0 ELSE goldOf("shop"),
                 !.itemQty = IF outcome \in {"notFound", "noGold"} THEN 0
                             ELSE docs[item].quantity,
                 !.outcome = outcome]]
    /\ UNCHANGED <<windowVars, shops, activeShops>>

\* the gold the call writes to the player (lines 195, 251) and to the shop
\* (lines 196, 252)
quickPlayerGold(q) ==
    IF q.op = "buy" THEN q.playerGold - q.price ELSE q.playerGold + q.price
quickShopGold(q) ==
    IF q.op = "buy" THEN q.shopGold + q.price ELSE q.shopGold - q.price

\* lines 198-200 / 254-256: the created item; lines 202-206 / 258-262: the
\* store call on the traded item
quickCreateOp(q) ==
    [op |-> "create", item |-> NoDoc, owner |-> Other(sellerOf(q.op)),
     kind |-> docs[q.item].kind, quantity |-> q.quantity]
quickSourceOp(q) ==
    IF q.itemQty <= q.quantity
    THEN [op |-> "delete", item |-> q.item, owner |-> docs[q.item].owner,
          kind |-> docs[q.item].kind, quantity |-> 0]
    ELSE [op |-> "update", item |-> q.item, owner |-> docs[q.item].owner,
          kind |-> docs[q.item].kind, quantity |-> q.itemQty - q.quantity]

\* the awaited store call of invocation c resolves and the function runs on
\* to its next await, or to return true
QuickResolve(c) ==
    LET q == quick[c]
    IN  /\ q.pc \in {"updPlayer", "updShop", "create", "source"}
        /\ CASE q.pc = "updPlayer" ->
                    /\ actorCurrency' =
                            [actorCurrency EXCEPT !["player"]["gp"] = quickPlayerGold(q)]
                    /\ quick' = [quick EXCEPT ![c].pc = "updShop",
                            ![c].playerDelta = quickPlayerGold(q) - goldOf("player")]
                    /\ UNCHANGED docs
             [] q.pc = "updShop" ->
                    /\ actorCurrency' =
                            [actorCurrency EXCEPT !["shop"]["gp"] = quickShopGold(q)]
                    /\ quick' = [quick EXCEPT ![c].pc = "create",
                            ![c].shopDelta = quickShopGold(q) - goldOf("shop")]
                    /\ UNCHANGED docs
             [] q.pc = "create" ->
                    /\ storeAccepts(docs, quickCreateOp(q))
                    /\ withinDocs(docs, quickCreateOp(q))
                    /\ docs' = storeApply(docs, quickCreateOp(q))
                    /\ quick' = [quick EXCEPT ![c].pc = "source"]
                    /\ UNCHANGED actorCurrency
             [] q.pc = "source" ->
                    /\ storeAccepts(docs, quickSourceOp(q))
                    /\ docs' = storeApply(docs, quickSourceOp(q))
                    /\ quick' = [quick EXCEPT ![c].pc = "returned", ![c].result = TRUE]
                    /\ UNCHANGED actorCurrency
        /\ UNCHANGED <<tradeItems, tradeCurrency, allowNegativeGold, context, trades,
                       hist, prompts, events, shops, activeShops>>

\* the awaited store call rejects: the catch block (lines 211-215, 267-271)
QuickReject(c) ==
    /\ quick[c].pc \in {"updPlayer", "updShop", "create", "source"}
    /\ quick' = [quick EXCEPT ![c].pc = "returned", ![c].outcome = "error"]
    /\ UNCHANGED <<windowVars, shops, activeShops>>

\* ShopAPI.setupShop up to its first await (lines 140-147)
SetupStart(c, actor, gold, items) ==
    /\ quick[c].pc = "idle"
    /\ \A b \in Calls : b < c => quick[b].pc # "idle"
    /\ quick' = [quick EXCEPT ![c] =
            [IdleCall EXCEPT !.pc = "setGold", !.op = "setup", !.actor = actor,
                             !.gold = gold, !.items = items]]
    /\ UNCHANGED <<windowVars, shops, activeShops>>

\* the document createEmbeddedDocuments creates from the item data
setupCreateOp(q) ==
    [op |-> "create", item |-> NoDoc, owner |-> q.actor,
     kind |-> q.items[1].kind, quantity |-> q.items[1].quantity]

\* setupShop: the awaited actor.update (line 147) or createEmbeddedDocuments
\* (line 156) resolves and the function runs on to its next await or to its
\* return
SetupResolve(c) ==
    LET q == quick[c]
    IN  /\ q.pc \in {"setGold", "createItems"}
        /\ CASE q.pc = "setGold" ->
                    /\ actorCurrency' = [actorCurrency EXCEPT ![q.actor]["gp"] = q.gold]
                    /\ quick' = [quick EXCEPT ![c].pc = IF Len(q.items) > 0 THEN "createItems"
                                                        ELSE "returned"]
                    /\ UNCHANGED docs
             [] q.pc = "createItems" ->
                    /\ withinDocs(docs, setupCreateOp(q))
                    /\ docs' = storeApply(docs, setupCreateOp(q))
                    /\ quick' = [quick EXCEPT ![c].pc = "returned"]
                    /\ UNCHANGED actorCurrency
        /\ UNCHANGED <<tradeItems, tradeCurrency, allowNegativeGold, context, trades,
                       hist, prompts, events, shops, activeShops>>

\* setupShop has no catch block: a store call that rejects ends the call
SetupReject(c) ==
    /\ quick[c].pc \in {"setGold", "createItems"}
    /\ quick' = [quick EXCEPT ![c].pc = "returned", ![c].outcome = "error"]
    /\ UNCHANGED <<windowVars, shops, activeShops>>

\* the world the quick trades run in
QuickInit ==
    /\ actorCurrency \in {[s \in Sides |-> Bundle(0, g[s], 0, 0, 0)] :
                            g \in [player : QuickGold["player"], shop : QuickGold["shop"]]}
    /\ docs = QuickDocs
    /\ tradeItems = [s \in Sides |-> <<>>]
    /\ tradeCurrency = [s \in Sides |-> Zero]
    /\ allowNegativeGold = FALSE
    /\ context = prepareContext
    /\ trades = [c \in Commits |-> IdleTrade]
    /\ hist = [c \in Commits |-> NoHist]
    /\ prompts = <<>>
    /\ events = 0
    /\ shops = [i \in ShopIds |-> NoWindow]
    /\ activeShops = EmptyMap
    /\ quick = [c \in Calls |-> IdleCall]

QuickNext ==
    \/ \E c \in Calls, given \in ItemForms, item \in DocIds, quantity \in QuickQuantities :
            QuickStart(c, "buy", given, item, quantity, DefaultSellRatio)
    \/ \E c \in Calls, given \in ItemForms, item \in DocIds, quantity \in QuickQuantities,
          ratio \in SellRatios :
            QuickStart(c, "sell", given, item, quantity, ratio)
    \/ \E c \in Calls : QuickResolve(c)
    \/ \E c \in Calls : QuickReject(c)
    \/ \E c \in Calls, actor \in Sides, gold \in SetupGold, items \in SetupItems :
            SetupStart(c, actor, gold, items)
    \/ \E c \in Calls : SetupResolve(c)
    \/ \E c \in Calls : SetupReject(c)

QuickSpec == QuickInit /\ [][QuickNext]_vars

RegistryNext ==
    \/ \E shopActor \in ShopActorIds \cup {NoActor},
          playerActor \in PlayerActorIds \cup {NoActor} : OpenShop(shopActor, playerActor)
    \/ \E shop \in ShopIds : RenderDone(shop)
    \/ \E shop \in ShopIds : CloseWindow(shop)
    \/ \E shop \in ShopIds : Closed(shop)
    \/ CloseAll

RegistrySpec == Init /\ [][RegistryNext]_vars


(* ------------------------------ properties ----------------------------- *)

BasketsEmpty ==
    \A s \in Sides : tradeItems[s] = <<>> /\ tradeCurrency[s] = Zero

BasketsUnchanged == tradeItems' = tradeItems /\ tradeCurrency' = tradeCurrency

\* the held-currency bundles canConfirm is evaluated on
HeldBundles == HeldChoices \cup {Zero, actorCurrency["player"], actorCurrency["shop"]}

\* a step of invocation c
StepOf(c) == trades'[c] # trades[c]

\* C1: an executeTrade invoked while canConfirm is false changes no held
\* currency, no inventory entry and no basket.
C1_RefusesWhenNotConfirmable ==
    [][\A c \in Commits :
        LET refused == IF trades[c].pc = "idle"
                       THEN ~canConfirmTrade(prepareCurrency("player"), prepareCurrency("shop"))
                       ELSE ~hist[c].confirmable
        IN  (refused /\ StepOf(c)) =>
                (actorCurrency' = actorCurrency /\ docs' = docs /\ BasketsUnchanged)]_vars

\* C2: no two invocations of executeTrade are in flight at the same time.
C2_OneCommitInFlight ==
    \A a, b \in Commits : (InFlight(a) /\ InFlight(b)) => a = b

\* C3: each currency update of a commit persists, per denomination, held -
\* offered + received, with held the amount stored on the actor when the
\* commit started and received the other side's offer.
C3_CurrencyDelta ==
    [][\A c \in Commits :
        LET expected(side) ==
                [d \in Denoms |-> hist[c].held[side][d] - hist[c].offered[side][d]
                                    + hist[c].offered[Other(side)][d]]
        IN  /\ (trades[c].pc = "updPlayer" /\ StepOf(c) /\ ~hist'[c].rejected)
                    => actorCurrency'["player"] = expected("player")
            /\ (trades[c].pc = "updShop" /\ StepOf(c) /\ ~hist'[c].rejected)
                    => actorCurrency'["shop"] = expected("shop")]_vars

C3_Witness ==
    \E c \in Commits :
        /\ trades[c].pc = "updShop"
        /\ hist[c].offered["player"] # Zero
        /\ hist[c].offered["shop"] # Zero
        /\ hist[c].offered["player"] # hist[c].offered["shop"]
        /\ actorCurrency["player"] # hist[c].held["player"]

\* C4: the step that ends a commit successfully leaves both baskets empty.
C4_SuccessEmptiesBaskets ==
    [][\A c \in Commits :
        (trades[c].pc # "done" /\ trades'[c].pc = "done") => BasketsEmpty']_vars

C4_Witness ==
    \E c \in Commits :
        /\ trades[c].pc = "done" /\ trades[c].notified = "info"
        /\ Len(hist[c].issued) > 2
        /\ actorCurrency["shop"] \notin HeldChoices
        /\ BasketsEmpty

\* C5: a commit in which a store call fails does not reset the negotiation:
\* none of its steps changes a basket, and the failure is signalled.
C5_FailureKeepsBaskets ==
    [][\A c \in Commits :
        /\ (StepOf(c) /\ trades'[c].pc # "done") => BasketsUnchanged
        /\ (StepOf(c) /\ hist'[c].rejected)
                => (trades'[c].notified = "error" /\ trades'[c].pc = "failed")]_vars

C5_Witness ==
    \E c \in Commits :
        /\ hist[c].rejected /\ trades[c].notified = "error"
        /\ Len(hist[c].issued) >= 3
        /\ tradeItems["shop"] # <<>>
        /\ tradeCurrency["player"] # Zero

\* C6: after a store call of a commit failed, the commit issues no further
\* store call.
C6_FailureAborts ==
    [][\A c \in Commits : hist'[c].rejected => hist'[c].issued = hist[c].issued]_vars

C6_Witness ==
    \E c \in Commits :
        /\ hist[c].rejected /\ trades[c].pc = "failed"
        /\ Len(hist[c].issued) = 3
        /\ tradeItems["player"] # <<>>

\* C7: a commit issues its store calls one at a time, the player's currency
\* update, then the shop's, then the calls of the shop-to-player transfers,
\* then those of the player-to-shop transfers.
C7_CallOrder ==
    \A c \in Commits :
        LET s == hist[c].issued
        IN  /\ Len(s) >= 1 => s[1] = CurrencyCall("player")
            /\ Len(s) >= 2 => s[2] = CurrencyCall("shop")
            /\ \A k \in 3..Len(s) : s[k].call = "item"
            /\ \A j, k \in 3..Len(s) : (j < k /\ s[j].actor = "shop") => s[k].actor = "shop"
            /\ Len(s) - hist[c].resolved = (IF InFlight(c) THEN 1 ELSE 0)

C7_Witness ==
    \E c \in Commits :
        /\ trades[c].pc = "done"
        /\ Len(hist[c].issued) = 6
        /\ hist[c].issued[4].actor = "player"
        /\ hist[c].issued[5].actor = "shop"

\* C8: with both baskets empty canConfirm is false, whatever the held currency
\* and the allowNegativeGold setting.
C8_EmptyNotConfirmable ==
    BasketsEmpty =>
        /\ \A playerCurrency, shopCurrency \in HeldBundles :
                ~canConfirmTrade(playerCurrency, shopCurrency)
        /\ ~context.canConfirm

C8_Witness ==
    /\ BasketsEmpty /\ allowNegativeGold /\ ~context.canConfirm
    /\ \E c \in Commits : trades[c].pc = "done"
    /\ actorCurrency["player"] # Zero

\* C9: with allowNegativeGold unset, canConfirm is false when a side offers
\* more of some denomination than it holds of it.
C9_DenominationNotAffordable ==
    ~allowNegativeGold =>
        \A playerCurrency, shopCurrency \in HeldBundles :
            (\E d \in Denoms : \/ tradeCurrency["player"][d] > playerCurrency[d]
                               \/ tradeCurrency["shop"][d] > shopCurrency[d])
                => ~canConfirmTrade(playerCurrency, shopCurrency)

C9_Witness ==
    /\ ~allowNegativeGold
    /\ \E d \in Denoms : tradeCurrency["player"][d] > actorCurrency["player"][d]
    /\ ~dblLess(calculateTotalGold(actorCurrency["player"]),
                calculateTotalGold(tradeCurrency["player"]))
    /\ ~dblPositive(calculateTradeBalance)
    /\ ~context.canConfirm

\* C10: canConfirm is false when the trade balance is positive, also when
\* every offered denomination is affordable.
C10_PositiveBalanceNotConfirmable ==
    dblPositive(calculateTradeBalance) =>
        \A playerCurrency, shopCurrency \in HeldBundles :
            ~canConfirmTrade(playerCurrency, shopCurrency)

C10_Witness ==
    /\ dblPositive(calculateTradeBalance)
    /\ currencyAffordable(actorCurrency["player"], actorCurrency["shop"])
    /\ hasOffer("player")
    /\ ~context.canConfirm

\* C11: canConfirm is true in every remaining case: some basket is not empty,
\* the trade balance is zero or negative (shop-favourable), and either
\* allowNegativeGold is set or no side offers more of a denomination than it
\* holds.
C11_OtherwiseConfirmable ==
    (~BasketsEmpty /\ ~dblPositive(calculateTradeBalance)) =>
        \A playerCurrency, shopCurrency \in HeldBundles :
            (\/ allowNegativeGold
             \/ \A d \in Denoms : /\ tradeCurrency["player"][d] <= playerCurrency[d]
                                  /\ tradeCurrency["shop"][d] <= shopCurrency[d])
                => canConfirmTrade(playerCurrency, shopCurrency)

C11_Witness ==
    /\ dblNegative(calculateTradeBalance)
    /\ allowNegativeGold
    /\ \E d \in Denoms : tradeCurrency["player"][d] > actorCurrency["player"][d]
    /\ tradeItems["shop"] # <<>>
    /\ context.canConfirm

\* the rate of a denomination, in hundredths of the base unit (gp)
Rate == [pp |-> 1000, gp |-> 100, ep |-> 50, sp |-> 10, cp |-> 1]

\* the exact value of a bundle in hundredths of the base unit
RECURSIVE weightedSum(_, _)
weightedSum(b, types) ==
    IF types = {} THEN 0
    ELSE LET d == CHOOSE x \in types : TRUE
         IN  Rate[d] * b[d] + weightedSum(b, types \ {d})

\* the number x is the double closest to the given count of hundredths: it
\* is the value the code has for that decimal amount
isNearest(x, hundredths) ==
    IF x.mag = NoBits THEN hundredths = 0
    ELSE LET exact == fromInt[hundredths].mag
             scaled == bitTimes[100, x.mag]
             distance == IF bitLess(scaled, exact) THEN bitSub[exact, scaled]
                         ELSE bitSub[scaled, exact]
             halfStep == IF bitMax(x.mag) < Precision THEN NoBits
                         ELSE <<0, 0, 50 * 2^(bitMax(x.mag) - (Precision - 1))>>
         IN  /\ x.neg = (hundredths < 0)
             /\ ~bitLess(halfStep, distance)

\* the exact value, in hundredths, of a basket's entries with each price
\* converted to the base unit by the item's own denomination
RECURSIVE normalizedItemsValue(_)
normalizedItemsValue(entries) ==
    IF entries = <<>> THEN 0
    ELSE itemPrice(Head(entries).item) * Rate[itemDenomination(Head(entries).item)]
                * Head(entries).quantity
            + normalizedItemsValue(Tail(entries))

totalNormalizedValue(side) ==
    weightedSum(tradeCurrency[side], Denoms) + normalizedItemsValue(tradeItems[side])

\* C12: the trade balance is the shop basket's total normalised value minus
\* the player basket's, an entry counting for its item's price converted to
\* the base unit by the item's own denomination, times the offered quantity.
C12_BalanceConvertsDenomination ==
    isNearest(calculateTradeBalance,
              totalNormalizedValue("shop") - totalNormalizedValue("player"))

\* the transfer invocation c is carrying out
currentTransfer(t) == transferPlan(t)[t.idx]

\* invocation c starts a transfer with this step: it resolves the stacking
\* target and issues the store call on the destination
IssuesDestination(c) ==
    /\ trades'[c].pc = "xferDst"
    /\ trades[c].pc # "xferDst" \/ trades'[c].idx # trades[c].idx

\* the entries of actor's inventory D with the source identifier item declares
sameSourceId(D, item, actor) ==
    {i \in aliveItems(D, actor) :
        /\ Kinds[D[item].kind].sourceId # ""
        /\ Kinds[D[i].kind].sourceId = Kinds[D[item].kind].sourceId}

\* the entries of actor's inventory D with the name and the type of item
sameNameAndType(D, item, actor) ==
    {i \in aliveItems(D, actor) :
        /\ Kinds[D[i].kind].name = Kinds[D[item].kind].name
        /\ Kinds[D[i].kind].type = Kinds[D[item].kind].type}

\* C13: the stacking target of a transfer is an entry of the destination with
\* the source identifier the transferred item declares if there is one, else
\* an entry with the same name and type if there is one; otherwise there is
\* no target, and no other entry is ever the target.
C13_StackingTarget ==
    [][\A c \in Commits :
        IssuesDestination(c) =>
            LET x == currentTransfer(trades'[c])
                target == trades'[c].pend
                bySource == sameSourceId(docs', x.item, x.to)
                byName == sameNameAndType(docs', x.item, x.to)
            IN  IF bySource # {} THEN target.op = "update" /\ target.item \in bySource
                ELSE IF byName # {} THEN target.op = "update" /\ target.item \in byName
                ELSE target.op = "create"]_vars

\* a transfer whose item has a same-source entry and a different same-name
\* entry in the destination waits on its update of the same-source entry
C13_Witness ==
    \E c \in Commits :
        /\ trades[c].pc = "xferDst"
        /\ trades[c].pend.op = "update"
        /\ LET x == currentTransfer(trades[c])
           IN  /\ trades[c].pend.item \in sameSourceId(docs, x.item, x.to)
               /\ sameNameAndType(docs, x.item, x.to) \ sameSourceId(docs, x.item, x.to) # {}
               /\ Kinds[docs[trades[c].pend.item].kind].name # Kinds[docs[x.item].kind].name

\* the store call of invocation c on the destination settles with this step
SettlesDestination(c) == trades[c].pc = "xferDst" /\ trades'[c].pc = "xferSrc"

\* C14: for every transfer, if a stacking target exists its quantity grows by
\* exactly the transferred amount and the destination gains no entry;
\* otherwise the destination gains exactly one entry, of a new identity, whose
\* quantity is the transferred amount.
C14_DestinationGains ==
    [][\A c \in Commits :
        SettlesDestination(c) =>
            LET x == currentTransfer(trades[c])
                target == trades[c].pend
                before == aliveItems(docs, x.to)
                after == aliveItems(docs', x.to)
            IN  IF target.op = "update"
                THEN /\ docs'[target.item].quantity = docs[target.item].quantity + x.quantity
                     /\ after = before
                ELSE /\ before \subseteq after
                     /\ Cardinality(after \ before) = 1
                     /\ \A n \in after \ before :
                            /\ docs[n].kind = "none"
                            /\ docs'[n].kind = docs[x.item].kind
                            /\ docs'[n].quantity = x.quantity]_vars

\* the store call of invocation c on the source item settles with this step
SettlesSource(c) ==
    /\ trades[c].pc = "xferSrc"
    /\ trades'[c].pc # "xferSrc" \/ trades'[c].idx # trades[c].idx
    /\ ~hist'[c].rejected

\* C15: for every transfer, a source entry whose full quantity is transferred
\* is deleted; when less is transferred the entry stays, with its quantity
\* reduced by exactly the transferred amount.
C15_SourceLoses ==
    [][\A c \in Commits :
        SettlesSource(c) =>
            LET x == currentTransfer(trades[c])
            IN  /\ x.quantity = docs[x.item].quantity => ~docs'[x.item].alive
                /\ x.quantity < docs[x.item].quantity =>
                        /\ docs'[x.item].alive
                        /\ docs'[x.item].quantity = docs[x.item].quantity - x.quantity]_vars

\* the content of a basket's item list: its entries, whatever their order
content(entries) == {entries[k] : k \in 1..Len(entries)}

\* the basket of side after two clicks on item that resolve to q1 and to q2,
\* each click done (its prompt answered) before anything else happens
toggledTwice(side, item, q1, q2) ==
    toggleItem(toggleItem(tradeItems[side], item, q1), item, q2)

\* C16 as stated: toggling an item twice leaves the basket with its prior
\* content, whether the item was in the basket or not.
C16_ToggleIsOwnInverse ==
    \A side \in Sides, item \in DocIds :
        hasItem(side, item) =>
            \A q1, q2 \in toggleQuantities(item) :
                q1 > 0 =>
                    content(toggledTwice(side, item, q1, q2)) = content(tradeItems[side])

\* C16, amended: toggling twice an item that is not in the basket, the first
\* click adding it, leaves the basket as it was; toggling twice an item that
\* is in the basket removes its entry and, unless the second click's prompt is
\* cancelled, adds a new last entry with the quantity the second click
\* resolves to, whatever the quantity offered before.
C16_ToggleTwice ==
    \A side \in Sides, item \in DocIds :
        hasItem(side, item) =>
            \A q1, q2 \in toggleQuantities(item) :
                LET prior == tradeItems[side]
                    others == SelectSeq(prior, LAMBDA e : e.item # item)
                IN  IF ~inTrade(prior, item)
                    THEN q1 > 0 => toggledTwice(side, item, q1, q2) = prior
                    ELSE toggledTwice(side, item, q1, q2) =
                            IF q2 > 0
                            THEN others \o <<[item |-> item, quantity |-> q2]>>
                            ELSE others

\* an item is offered with quantity 2 and a second click on it could offer 1
C16_Witness ==
    \E side \in Sides :
        /\ Len(tradeItems[side]) = 1
        /\ tradeItems[side][1].quantity = 2
        /\ hasItem(side, tradeItems[side][1].item)
        /\ 1 \in toggleQuantities(tradeItems[side][1].item)

\* the quantity dialog at position k is answered or closed with this step
ResolvesPrompt(k) == k \in 1..Len(prompts) /\ prompts' = removeAt(prompts, k)

\* no item identity has two entries in a basket
NoDuplicateEntries(items) ==
    \A s \in Sides : \A j, k \in 1..Len(items[s]) :
        items[s][j].item = items[s][k].item => j = k

\* C17: adding an item that is already in the basket changes nothing, also
\* when the add is that of a click whose quantity dialog was still open while
\* a drop added the item: the entry and its quantity stay, and there is no
\* second entry.
C17_AddPresentIsNoOp ==
    [][/\ NoDuplicateEntries(tradeItems')
       /\ \A k \in 1..Len(prompts) :
            (ResolvesPrompt(k) /\ inTrade(tradeItems[prompts[k].source], prompts[k].item))
                => tradeItems' = tradeItems]_vars

\* C18: a quantity dialog that is confirmed after the baskets were cleared or
\* reset since it opened adds no entry: the baskets are left as they are.
C18_StalePromptIsNoOp ==
    [][\A k \in 1..Len(prompts) :
        (ResolvesPrompt(k) /\ prompts[k].stale) => tradeItems' = tradeItems]_vars

\* an offered bundle has the five denominations, each a non-negative integer
OfferedBundlesOK == \A s \in Sides : tradeCurrency[s] \in [Denoms -> Nat]

\* the amount a currency input is set to for the text raw: max(0, amount),
\* and 0 for a text no amount can be read from
expectedAmount(raw) ==
    IF parseInt(raw).nan THEN 0
    ELSE IF parseInt(raw).value < 0 THEN 0
    ELSE parseInt(raw).value

\* the handler's amount for every text is the expected one
ClampsEveryInput == \A raw \in RawInputs : clampInput(raw) = expectedAmount(raw)

\* a step that changes an offered bundle, other than a reset of the baskets,
\* sets one denomination of one side and leaves the item lists alone
SetsOneDenomination ==
    (tradeCurrency' # tradeCurrency /\ ~BasketsEmpty') =>
        /\ tradeItems' = tradeItems
        /\ \E side \in Sides, type \in Denoms, raw \in RawInputs :
                tradeCurrency' = [tradeCurrency EXCEPT ![side][type] = expectedAmount(raw)]

\* C19: a currency input sets its denomination of its side to max(0, amount),
\* and to 0 when no amount can be read from the text; both offered bundles
\* always have the five denominations with non-negative integer amounts, and
\* the input changes no other denomination, side or item entry.
C19_SetCurrencyClamps ==
    /\ [](OfferedBundlesOK /\ ClampsEveryInput)
    /\ [][SetsOneDenomination]_vars

\* two inputs were made after an item was offered: the bundles differ in one
\* denomination each from the empty bundle
C19_Witness ==
    /\ tradeCurrency["player"] = Bundle(0, 0, 0, 1, 0)
    /\ tradeCurrency["shop"] = Bundle(0, 0, 1, 0, 0)
    /\ tradeItems["player"] # <<>>

\* a text no amount can be read from
malformed(raw) == parseInt(raw).nan
MalformedInputs == {raw \in RawInputs : malformed(raw)}

\* C20 as stated: a malformed currency input leaves the offered amount of
\* its denomination, and everything else in the bundles, as it was.
C20_MalformedInputIsNoOp ==
    \A side \in Sides, type \in Denoms, raw \in MalformedInputs :
        setCurrency(tradeCurrency, side, type, raw) = tradeCurrency

\* C20, amended: a malformed currency input sets the offered amount of its
\* denomination to 0, whatever was offered before, and leaves every other
\* denomination of both bundles as it was.
C20_MalformedInputSetsZero ==
    \A side \in Sides, type \in Denoms, raw \in MalformedInputs :
        setCurrency(tradeCurrency, side, type, raw) =
            [tradeCurrency EXCEPT ![side][type] = 0]

\* the player offers 1 gp and 1 sp: a malformed text in the gp input leaves
\* the 1 sp only
C20_Witness ==
    /\ tradeCurrency["player"] = Bundle(0, 1, 0, 1, 0)
    /\ malformed(<<"a">>)
    /\ setCurrency(tradeCurrency, "player", "gp", <<"a">>)["player"] = Bundle(0, 0, 0, 1, 0)

\* a quantity dialog opens with this step
OpensPrompt == Len(prompts') > Len(prompts)

\* C21: a cancelled quantity prompt (a null or non-positive result, the
\* dialog closed included) leaves both baskets as they were when it resolved,
\* and the click that opened the prompt has changed no basket, no currency
\* and no inventory entry while the prompt is pending.
C21_CancelledPromptIsNoOp ==
    /\ [](\A side \in Sides, item \in DocIds :
            resolvePrompt(tradeItems[side], item, 0) = tradeItems[side])
    /\ [][OpensPrompt =>
            /\ BasketsUnchanged
            /\ docs' = docs /\ actorCurrency' = actorCurrency]_vars

\* a quantity dialog is pending while both baskets hold an offer
C21_Witness ==
    /\ Len(prompts) = 1
    /\ tradeItems["player"] # <<>>
    /\ tradeCurrency["shop"] # Zero

\* the quantity actor holds of item: 0 when the item is gone
heldQuantity(actor, item) == IF hasItem(actor, item) THEN docs[item].quantity ELSE 0

\* C22: an offer entry, at the moment a click or a drop adds it, has a
\* quantity of at least 1 and at most the quantity its owner holds of the
\* item at that moment.
C22_OfferedWithinHeld ==
    [][\A s \in Sides : \A e \in content(tradeItems'[s]) \ content(tradeItems[s]) :
        /\ 1 <= e.quantity
        /\ e.quantity <= heldQuantity(s, e.item)]_vars

\* the currency bundles with amounts up to MaxAmount, bundles that lack
\* denominations included
BundleSamples == UNION {[present -> 0..MaxAmount] : present \in SUBSET Denoms}

\* normalize on every sample: the sum of the rates times the amounts present
NormalizeOnSamples ==
    \A b \in BundleSamples : isNearest(calculateTotalGold(b), weightedSum(b, DOMAIN b))

\* C23: normalize(b) = 10*pp + gp + 0.5*ep + 0.1*sp + 0.01*cp, that is
\* 1000*pp + 100*gp + 50*ep + 10*sp + cp hundredths of the base unit, for
\* every currency bundle b, a denomination the bundle lacks counting as 0.
C23_Normalize ==
    /\ NormalizeOnSamples
    /\ \A s \in Sides :
        /\ isNearest(calculateTotalGold(tradeCurrency[s]), weightedSum(tradeCurrency[s], Denoms))
        /\ isNearest(calculateTotalGold(prepareCurrency(s)),
                     weightedSum(prepareCurrency(s), Denoms))

\* denomination texts: the five denominations, two of them in upper case, a
\* missing one and two unknown ones
DenominationSamples == Denoms \cup {"PP", "Gp", "", "xp", "gold"}

\* the rates as the numbers the code multiplies by
RateNumber == [pp |-> Ten, gp |-> fromInt[1], ep |-> Half, sp |-> Tenth, cp |-> Hundredth]

\* toBaseUnit on every sample
ToBaseUnitOnSamples ==
    \A amount \in 0..MaxAmount, denom \in DenominationSamples :
        toGold(amount, denom) =
            IF toLowerCase(denom) \in Denoms
            THEN dblTimes[amount, RateNumber[toLowerCase(denom)]]
            ELSE fromInt[amount]

\* C24: toBaseUnit(value, denomination) is the product of the value and the
\* rate of the denomination (pp 10, gp 1, ep 0.5, sp 0.1, cp 0.01), and the
\* value itself, taken as gp, for an unknown or missing denomination.
C24_ToBaseUnit ==
    /\ ToBaseUnitOnSamples
    /\ \A item \in DocIds :
            docs[item].kind \in DOMAIN Kinds =>
                priceInGp(item) = dblTimes[itemPrice(item), RateNumber[itemDenomination(item)]]

\* a Sword priced 1 pp is offered: its price in the base unit is 10 gp
C24_Witness ==
    /\ \E k \in 1..Len(tradeItems["player"]) :
            /\ itemDenomination(tradeItems["player"][k].item) = "pp"
            /\ priceInGp(tradeItems["player"][k].item) = fromInt[10]
    /\ toGold(2, "xp") = fromInt[2] /\ toGold(2, "") = fromInt[2]

\* a user event that assigns what clearTrade assigns and starts no commit
ClearsTrade ==
    /\ events' = events + 1
    /\ trades' = trades
    /\ tradeItems' = resetItems /\ tradeCurrency' = resetCurrency

\* C25: clearTrade empties both baskets (no item entry, both offered bundles
\* all zero) without committing: it changes no held currency and no
\* inventory entry of either party.
C25_ClearDoesNotCommit ==
    [][ClearsTrade =>
        /\ BasketsEmpty'
        /\ actorCurrency' = actorCurrency
        /\ docs' = docs]_vars

\* the baskets were cleared while a quantity dialog was open, and no commit
\* was ever started
C25_Witness ==
    /\ BasketsEmpty
    /\ \A c \in Commits : trades[c].pc = "idle"
    /\ \E k \in 1..Len(prompts) : prompts[k].stale
    /\ events = MaxEvents

\* invocation c has returned
Ended(c) == trades[c].pc \in {"done", "failed"}

\* what an invocation that returned has signalled: success after the try
\* block ran through, failure after a store call rejected, never both
OneOutcome(c) ==
    /\ trades[c].pc = "done" => (trades[c].notified = "info" /\ ~hist[c].rejected)
    /\ trades[c].pc = "failed" => (trades[c].notified = "error" /\ hist[c].rejected)
    /\ InFlight(c) => trades[c].notified = "none"

\* C26: provided every store call eventually resolves or rejects, every
\* started executeTrade eventually returns, with exactly one outcome: success
\* (baskets reset by that step, success notification) or failure (baskets
\* left alone by that step, error notification); the outcome never changes.
\* An invocation is in flight, has returned, or was never started, so that
\* "always eventually not in flight" says that a started one returns.
C26_CommitEnds ==
    /\ \A c \in Commits : []<>(~InFlight(c))
    /\ [](\A c \in Commits : InFlight(c) \/ Ended(c) \/ trades[c] = IdleTrade)
    /\ [](\A c \in Commits : OneOutcome(c))
    /\ [][\A c \in Commits :
            /\ Ended(c) => trades'[c] = trades[c]
            /\ (InFlight(c) /\ trades'[c].pc = "done") => BasketsEmpty'
            /\ (InFlight(c) /\ trades'[c].pc = "failed") => BasketsUnchanged]_vars

\* one commit has succeeded and another one has failed
C26_Witness ==
    \E a, b \in Commits :
        /\ trades[a].pc = "done" /\ trades[a].notified = "info"
        /\ trades[b].pc = "failed" /\ trades[b].notified = "error"

\* C27: with allowNegativeGold unset, no party ever holds a negative amount
\* of any denomination, whatever basket changes, renders and confirms
\* happened.
C27_HeldNeverNegative ==
    ~allowNegativeGold =>
        \A s \in Sides, d \in Denoms : actorCurrency[s][d] >= 0

\* the units of the alive documents among ids
RECURSIVE unitsAmong(_, _)
unitsAmong(D, ids) ==
    IF ids = {} THEN 0
    ELSE LET i == MinOf(ids)
         IN  (IF D[i].alive THEN D[i].quantity ELSE 0) + unitsAmong(D, ids \ {i})

\* the units held in the two inventories together
totalUnits(D) == unitsAmong(D, DocIds)

\* C28: every transfer conserves units: the step that settles the store call
\* on the destination adds exactly the transferred quantity to the two
\* inventories, and the step that settles the store call on the source removes
\* exactly that quantity, also when the source holds fewer units than offered.
C28_UnitsConserved ==
    [][\A c \in Commits :
        /\ SettlesDestination(c) =>
                totalUnits(docs') - totalUnits(docs) = currentTransfer(trades[c]).quantity
        /\ SettlesSource(c) =>
                totalUnits(docs) - totalUnits(docs') = currentTransfer(trades[c]).quantity]_vars

\* the currency a party can hold when the window opens
initiallyHeld(s) == IF s = "player" THEN PlayerHeldChoices ELSE ShopHeldChoices

\* the units actor holds in D
unitsOf(D, actor) == unitsAmong(D, {i \in DocIds : D[i].owner = actor})

\* the units the first n transfers of plan bring to actor
RECURSIVE inbound(_, _, _)
inbound(plan, n, actor) ==
    IF n = 0 THEN 0
    ELSE (IF plan[n].to = actor THEN plan[n].quantity ELSE 0) + inbound(plan, n - 1, actor)

\* invocation c snapshotted an offer that is not empty
CarriesOffer(c) ==
    \/ \E s \in Sides : hist[c].offered[s] # Zero
    \/ transferPlan(trades[c]) # <<>>

\* the currency update of invocation c on party s takes effect with this step
AppliesCurrency(c, s) ==
    IF s = "player"
    THEN trades[c].pc = "updPlayer" /\ trades'[c].pc = "updShop"
    ELSE trades[c].pc = "updShop" /\ trades'[c].pc \notin {"updShop", "failed"}

\* C29: over the confirm attempts on one composed offer, the offer takes
\* effect at most once: after a currency update of an invocation carrying the
\* offer, the party holds what it held when the window opened plus the offer's
\* delta, applied once; after a transfer credited its destination, the
\* destination holds at most its initial units plus the units the offer
\* brings to it, each counted once.
C29_OfferAppliedOnce ==
    [][\A c \in Commits :
        /\ \A s \in Sides :
                (AppliesCurrency(c, s) /\ CarriesOffer(c)) =>
                    \E h \in initiallyHeld(s) : \A d \in Denoms :
                        actorCurrency'[s][d] =
                            h[d] - hist[c].offered[s][d] + hist[c].offered[Other(s)][d]
        /\ SettlesDestination(c) =>
                LET plan == transferPlan(trades[c])
                    to == currentTransfer(trades[c]).to
                IN  unitsOf(docs', to) <= unitsOf(InitDocs, to) + inbound(plan, Len(plan), to)]_vars

\* the offer entries of side s that invocation c snapshotted for transfer
snapshotItems(c, s) ==
    IF s = "shop" THEN trades[c].itemsToPlayer ELSE trades[c].itemsToShop

\* invocation c ends successfully with this step: its reset runs
Resets(c) == InFlight(c) /\ trades'[c].pc = "done"

\* C30: the reset at the end of a successful commit loses nothing added
\* after the snapshot: an offer entry that no invocation in flight
\* snapshotted is still in the basket after the reset, and a currency amount
\* raised above what every invocation in flight snapshotted is not zeroed.
C30_ResetKeepsLaterOffers ==
    [][\A c \in Commits : Resets(c) =>
        \A s \in Sides :
            /\ \A e \in content(tradeItems[s]) :
                    (\A b \in Commits : InFlight(b) => e \notin content(snapshotItems(b, s)))
                        => e \in content(tradeItems'[s])
            /\ \A d \in Denoms :
                    (\A b \in Commits : InFlight(b) => tradeCurrency[s][d] > hist[b].offered[s][d])
                        => tradeCurrency'[s][d] > 0]_vars

\* the window of an instance exists: it was created and its close has not
\* completed
WindowExists(shop) == shops[shop].state \in {"rendering", "rendered", "closing"}

\* C31: at most one window exists per shop key, and openShop for a key that
\* has a window returns that window instead of creating one, also while the
\* window is still rendering.
C31_OneWindowPerPair ==
    /\ \A i, j \in ShopIds :
            (WindowExists(i) /\ WindowExists(j) /\ shops[i].key = shops[j].key) => i = j
    /\ \A i \in ShopIds : WindowExists(i) => existingShop(shops[i].key) = i

\* the window of an instance is open: created, and no close was requested
WindowOpen(shop) ==
    shops[shop].state \in {"rendering", "rendered"} /\ ~shops[shop].closeQueued

\* the keys under which an instance is registered
registeredKeys(registry, shop) == {k \in DOMAIN registry : registry[k] = shop}

\* the close of an instance completes with this step
CloseCompletes(shop) == shops[shop].state = "closing" /\ shops'[shop].state = "closed"

\* C32: the registry holds exactly the open windows: an open window is
\* registered under its own key, a window whose close completed is registered
\* nowhere, the completion of a close leaves every other instance's
\* registration in place, and after closeAll the registry is empty.
C32_RegistryIsOpenWindows ==
    /\ [](\A i \in ShopIds :
            /\ WindowOpen(i) => registeredKeys(activeShops, i) = {shops[i].key}
            /\ shops[i].state = "closed" => registeredKeys(activeShops, i) = {})
    /\ [][/\ \A i, j \in ShopIds :
                (CloseCompletes(i) /\ j # i) =>
                    registeredKeys(activeShops', j) = registeredKeys(activeShops, j)
          /\ CloseAll => activeShops' = EmptyMap]_vars

\* invocation c of quickBuy / quickSell is called with this step
QuickCalled(c) ==
    quick[c].pc = "idle" /\ quick'[c].pc # "idle" /\ quick'[c].op \in {"buy", "sell"}

\* invocation c returns true with this step
QuickSucceeds(c) == ~quick[c].result /\ quick'[c].result

\* the price of the trade q: unit price * quantity for a purchase,
\* floor(unit price * sellRatio) * quantity for a sale
tradePrice(q) ==
    IF q.op = "buy" THEN Kinds[docs[q.item].kind].price * q.quantity
    ELSE ((Kinds[docs[q.item].kind].price * q.ratio) \div 100) * q.quantity

\* the call q must be refused: the seller does not hold the item, the payer
\* holds less gold than the price, or the seller's stock is below the
\* requested quantity
mustRefuse(q) ==
    \/ ~(docs[q.item].alive /\ docs[q.item].owner = sellerOf(q.op))
    \/ actorCurrency[payerOf(q.op)]["gp"] < tradePrice(q)
    \/ docs[q.item].quantity < q.quantity

\* C33: a quickBuy / quickSell call that must be refused returns false at once
\* and changes no gold and no inventory entry; a call that returns true has
\* decreased the payer's gold by exactly the price and increased the payee's
\* gold by exactly the price.
C33_QuickTradeGuards ==
    [][\A c \in Calls :
        /\ (QuickCalled(c) /\ mustRefuse(quick'[c])) =>
                /\ quick'[c].pc = "returned" /\ ~quick'[c].result
                /\ actorCurrency' = actorCurrency /\ docs' = docs
        /\ QuickSucceeds(c) =>
                LET q == quick[c]
                    delta == [player |-> q.playerDelta, shop |-> q.shopDelta]
                IN  /\ delta[payerOf(q.op)] = 0 - tradePrice(q)
                    /\ delta[Other(payerOf(q.op))] = tradePrice(q)]_vars

=============================================================================
